---- MODULE Spec2Model ----
(***************************************************************************)
(* The metric-engineering pipeline of Day4/ken_dashboard.py:               *)
(* engineer_df_agg, engineer_df_time, get_vid_stat_trends and              *)
(* get_header_stats, over small pandas-like tables.                        *)
(*                                                                         *)
(* A table is [columns, dtypes, rows]: the column labels, the dtype of     *)
(* each column and the rows, each row a tuple of cells in column order.    *)
(* A string cell is a tuple of one-character strings, a number cell is a   *)
(* fraction <<n, d>> (d = 0 encodes the IEEE values inf, -inf and NaN), a  *)
(* datetime cell is <<year, month, day>> (<<0, 0, 0>> is NaT).             *)
(***************************************************************************)
EXTENDS Integers, Sequences, FiniteSets, TLC

VARIABLES df_agg, df_time, df_agg_diff, header_metrics, header_trends,
          err, last, arg

vars == <<df_agg, df_time, df_agg_diff, header_metrics, header_trends,
          err, last, arg>>

\* Largest number of rows of the aggregate table in an explored input.
MaxRows == 3
\* Largest number of rows of the time-series table in an explored input.
MaxTimeRows == 2

(***************************************************************************)
(* Small integer helpers.                                                  *)
(***************************************************************************)
Abs(x) == IF x < 0 THEN -x ELSE x

Sign(x) == IF x < 0 THEN -1 ELSE IF x > 0 THEN 1 ELSE 0

RECURSIVE Gcd(_, _)
Gcd(a, b) == IF b = 0 THEN a ELSE Gcd(b, a % b)

SetMax(S) == CHOOSE x \in S : \A y \in S : y <= x

Range(s) == {s[i] : i \in 1..Len(s)}

\* The function f on 1..n as the tuple of its values.
Tuple(f) == SubSeq(f, 1, Len(f))

\* The position of label c in the label tuple cols (0 when absent).
IndexOf(cols, c) ==
  IF \E i \in 1..Len(cols) : cols[i] = c
  THEN CHOOSE i \in 1..Len(cols) : cols[i] = c
  ELSE 0

(***************************************************************************)
(* float64 values as extended fractions <<n, d>>, d >= 0, in lowest terms. *)
(* <<1, 0>> is inf, <<-1, 0>> is -inf, <<0, 0>> is NaN.                    *)
(***************************************************************************)
NaN == <<0, 0>>
Inf == <<1, 0>>
NegInf == <<-1, 0>>

Num(n) == <<n, 1>>

Frac(n, d) ==
  IF d = 0 THEN <<Sign(n), 0>>
  ELSE LET g == Gcd(Abs(n), Abs(d))
           s == IF d < 0 THEN -1 ELSE 1
       IN  <<(s * n) \div g, (s * d) \div g>>

IsNaN(a) == a = NaN
IsFinite(a) == a[2] # 0

\* IEEE addition: NaN propagates, inf + -inf is NaN.
FAdd(a, b) ==
  IF IsNaN(a) \/ IsNaN(b) THEN NaN
  ELSE IF ~IsFinite(a) /\ ~IsFinite(b) THEN (IF a = b THEN a ELSE NaN)
  ELSE IF ~IsFinite(a) THEN a
  ELSE IF ~IsFinite(b) THEN b
  ELSE Frac(a[1] * b[2] + b[1] * a[2], a[2] * b[2])

FNeg(a) == <<-a[1], a[2]>>

FSub(a, b) == FAdd(a, FNeg(b))

\* A division that answers 0 for a zero denominator.
FDivZeroDefault(a, b) ==
  IF IsFinite(b) /\ b[1] = 0 THEN Num(0)
  ELSE IF IsNaN(a) \/ IsNaN(b) THEN NaN
  ELSE IF ~IsFinite(a) /\ ~IsFinite(b) THEN NaN
  ELSE IF ~IsFinite(b) THEN Num(0)
  ELSE IF ~IsFinite(a) THEN <<a[1] * Sign(b[1]), 0>>
  ELSE Frac(a[1] * b[2], a[2] * b[1])

\* pandas / IEEE true division: x/0 is +-inf by the sign of x, 0/0 is NaN,
\* inf/inf is NaN, x/inf is 0.  It never raises.
FDiv(a, b) ==
  IF IsNaN(a) \/ IsNaN(b) THEN NaN
  ELSE IF ~IsFinite(a) /\ ~IsFinite(b) THEN NaN
  ELSE IF ~IsFinite(b) THEN Num(0)
  ELSE IF ~IsFinite(a) THEN <<a[1] * (IF b[1] < 0 THEN -1 ELSE 1), 0>>
  ELSE IF b[1] = 0 THEN <<Sign(a[1]), 0>>
  ELSE Frac(a[1] * b[2], a[2] * b[1])

\* a <= b on non-NaN values.
FLeq(a, b) ==
  IF a = b THEN TRUE
  ELSE IF a = NegInf \/ b = Inf THEN TRUE
  ELSE IF a = Inf \/ b = NegInf THEN FALSE
  ELSE a[1] * b[2] <= b[1] * a[2]

\* DataFrame.median on one column (skipna): NaN cells are dropped, the
\* middle value of the rest, or the mean of the two middle values; NaN when
\* nothing is left.
Median(vals) ==
  LET xs == SelectSeq(vals, LAMBDA v : ~IsNaN(v))
      n == Len(xs)
      Below(v) == Cardinality({i \in 1..n : xs[i] # v /\ FLeq(xs[i], v)})
      UpTo(v) == Cardinality({i \in 1..n : FLeq(xs[i], v)})
      Kth(k) == CHOOSE v \in Range(xs) : Below(v) < k /\ k <= UpTo(v)
  IN  IF n = 0 THEN NaN
      ELSE IF n % 2 = 1 THEN Kth((n + 1) \div 2)
      ELSE FDiv(FAdd(Kth(n \div 2), Kth(n \div 2 + 1)), Num(2))

(***************************************************************************)
(* Strings: tuples of one-character strings.                               *)
(***************************************************************************)
DigitChars == {"0", "1", "2", "3", "4", "5", "6", "7", "8", "9"}

SpaceChars == {" "}

LetterChars == {"J", "F", "M", "A", "S", "O", "N", "D",
                "a", "b", "c", "e", "g", "l", "n", "o", "p", "r", "t", "u",
                "v", "y", "j", "f", "m", "s", "d"}

DigitVal(c) ==
  CASE c = "0" -> 0 [] c = "1" -> 1 [] c = "2" -> 2 [] c = "3" -> 3
    [] c = "4" -> 4 [] c = "5" -> 5 [] c = "6" -> 6 [] c = "7" -> 7
    [] c = "8" -> 8 [] c = "9" -> 9

DigitChar(n) ==
  CASE n = 0 -> "0" [] n = 1 -> "1" [] n = 2 -> "2" [] n = 3 -> "3"
    [] n = 4 -> "4" [] n = 5 -> "5" [] n = 6 -> "6" [] n = 7 -> "7"
    [] n = 8 -> "8" [] n = 9 -> "9"

\* The value of a run of decimal digits.
RECURSIVE DecVal(_)
DecVal(s) ==
  IF Len(s) = 0 THEN 0
  ELSE 10 * DecVal(SubSeq(s, 1, Len(s) - 1)) + DigitVal(s[Len(s)])

\* The decimal numeral of n >= 0, and the numeral padded to two digits.
RECURSIVE Dec(_)
Dec(n) == IF n < 10 THEN <<DigitChar(n)>> ELSE Dec(n \div 10) \o <<DigitChar(n % 10)>>

Pad2(n) == IF n < 10 THEN <<"0">> \o Dec(n) ELSE Dec(n)

\* re.IGNORECASE on the letters a month abbreviation can start with.
Lower(c) ==
  CASE c = "J" -> "j" [] c = "F" -> "f" [] c = "M" -> "m" [] c = "A" -> "a"
    [] c = "S" -> "s" [] c = "O" -> "o" [] c = "N" -> "n" [] c = "D" -> "d"
    [] OTHER -> c

LowerStr(s) == [i \in 1..Len(s) |-> Lower(s[i])]

\* The index after the longest run of characters of class C that starts at
\* index i of s.
Span(s, i, C) ==
  SetMax({j \in i..(Len(s) + 1) : \A k \in i..(j - 1) : s[k] \in C})

\* str.startswith at index i.
StartsAt(s, i, old) ==
  /\ i + Len(old) - 1 <= Len(s)
  /\ SubSeq(s, i, i + Len(old) - 1) = old

\* str.replace that leaves the string as it is.
ReplaceNothing(s, old, new) == s

\* Python str.replace(old, new): every non-overlapping occurrence, left to
\* right.
RECURSIVE ReplaceFrom(_, _, _, _)
ReplaceFrom(s, i, old, new) ==
  IF i > Len(s) THEN <<>>
  ELSE IF StartsAt(s, i, old) THEN new \o ReplaceFrom(s, i + Len(old), old, new)
  ELSE <<s[i]>> \o ReplaceFrom(s, i + 1, old, new)

Replace(s, old, new) == ReplaceFrom(s, 1, old, new)

(***************************************************************************)
(* Dates <<year, month, day>>; NaT is <<0, 0, 0>>.                         *)
(***************************************************************************)
NaT == <<0, 0, 0>>

IsLeap(y) == (y % 4 = 0 /\ y % 100 # 0) \/ y % 400 = 0

DaysInMonth(y, m) ==
  IF m = 2 THEN (IF IsLeap(y) THEN 28 + 1 ELSE 28)
  ELSE IF m \in {4, 6, 9, 11} THEN 30
  ELSE 31

\* a >= b on timestamps; any comparison with NaT is False.
DateGeq(a, b) ==
  IF a = NaT \/ b = NaT THEN FALSE
  ELSE \/ a[1] > b[1]
       \/ a[1] = b[1] /\ a[2] > b[2]
       \/ a[1] = b[1] /\ a[2] = b[2] /\ a[3] >= b[3]

\* Series.max() of a datetime column: NaT cells are skipped, and the
\* result is NaT when no cell is left.
DateMax(ds) ==
  LET dated == Range(ds) \ {NaT}
  IN  IF dated = {} THEN NaT
      ELSE CHOOSE a \in dated : \A b \in dated : DateGeq(a, b)

\* Timestamp - pd.DateOffset(months=k): the month moves back by k and the
\* day is clipped to the length of the month reached.
SubMonths(t, months) ==
  IF t = NaT THEN NaT
  ELSE LET idx == t[1] * 12 + (t[2] - 1) - months
           y == idx \div 12
           m == (idx % 12) + 1
           dim == DaysInMonth(y, m)
       IN  <<y, m, IF t[3] > dim THEN dim ELSE t[3]>>

\* The %b table of the C locale, lower-cased.
MonthAbbr ==
  << <<"j", "a", "n">>, <<"f", "e", "b">>, <<"m", "a", "r">>,
     <<"a", "p", "r">>, <<"m", "a", "y">>, <<"j", "u", "n">>,
     <<"j", "u", "l">>, <<"a", "u", "g">>, <<"s", "e", "p">>,
     <<"o", "c", "t">>, <<"n", "o", "v">>, <<"d", "e", "c">> >>

\* The month abbreviation as the exports write it (first letter capital).
MonthName(m) ==
  LET a == MonthAbbr[m]
      up == CASE a[1] = "j" -> "J" [] a[1] = "f" -> "F" [] a[1] = "m" -> "M"
              [] a[1] = "a" -> "A" [] a[1] = "s" -> "S" [] a[1] = "o" -> "O"
              [] a[1] = "n" -> "N" [] a[1] = "d" -> "D"
  IN  <<up, a[2], a[3]>>

\* A parse result: the value, or a failure (ValueError in the caller).
Parsed(v) == [ok |-> TRUE, value |-> v]
ParseError == [ok |-> FALSE, value |-> NaT]

\* The %d directive on a digit run: 3[0-1] | [1-2]\d | 0[1-9] | [1-9].
DayField(ds) ==
  /\ Len(ds) \in {1, 2}
  /\ DecVal(ds) \in 1..31

\* The checks shared by both date formats once the fields are cut out.
MakeDate(mon, day, year) ==
  LET m == IndexOf(MonthAbbr, LowerStr(mon))
  IN  IF /\ m # 0
         /\ DayField(day)
         /\ Len(year) = 4
         /\ DecVal(day) <= DaysInMonth(DecVal(year), m)
      THEN Parsed(<<DecVal(year), m, DecVal(day)>>)
      ELSE ParseError

\* pd.to_datetime(..., format="%b %d, %Y") on one string: month
\* abbreviation, white space, day, a comma, white space, four-digit year,
\* and nothing after it.
ParsePublishTime(s) ==
  LET a == Span(s, 1, LetterChars)
      b == Span(s, a, SpaceChars)
      c == Span(s, b, DigitChars)
  IN  IF ~(b > a /\ c <= Len(s) /\ s[c] = ",") THEN ParseError
      ELSE LET e == Span(s, c + 1, SpaceChars)
               f == Span(s, e, DigitChars)
           IN  IF e > c + 1 /\ f = Len(s) + 1
               THEN MakeDate(SubSeq(s, 1, a - 1), SubSeq(s, b, c - 1),
                             SubSeq(s, e, f - 1))
               ELSE ParseError

\* pd.to_datetime(..., format="%d %b %Y") on one string: day (the %d
\* directive also takes a blank followed by one digit), white space, month
\* abbreviation, white space, four-digit year, and nothing after it.
ParseDate(s) ==
  LET lead == IF Len(s) >= 1 /\ s[1] = " " THEN 2 ELSE 1
      a == Span(s, lead, DigitChars)
      b == Span(s, a, SpaceChars)
      c == Span(s, b, LetterChars)
      d == Span(s, c, SpaceChars)
      e == Span(s, d, DigitChars)
  IN  IF /\ b > a
         /\ d > c
         /\ e = Len(s) + 1
         /\ (lead = 2 => a - lead = 1)
      THEN MakeDate(SubSeq(s, b, c - 1), SubSeq(s, lead, a - 1),
                    SubSeq(s, d, e - 1))
      ELSE ParseError

\* A field of one or two digits whose value is below limit: the %H
\* (limit 24), %M (limit 60) and %S directives.
TimeField(ds, limit) == Len(ds) \in {1, 2} /\ DecVal(ds) < limit

\* datetime.strptime(x, "%H:%M:%S"): <<hour, minute, second>> of the time,
\* hour 0..23, minute 0..59; %S matches 0..61 but the datetime constructor
\* refuses a second above 59, so the call raises ValueError there too.
ParseDuration(s) ==
  LET a == Span(s, 1, DigitChars)
  IN  IF ~(a <= Len(s) /\ s[a] = ":") THEN ParseError
      ELSE LET b == Span(s, a + 1, DigitChars)
           IN  IF ~(b <= Len(s) /\ s[b] = ":") THEN ParseError
               ELSE LET c == Span(s, b + 1, DigitChars)
                        H == SubSeq(s, 1, a - 1)
                        M == SubSeq(s, a + 1, b - 1)
                        S == SubSeq(s, b + 1, c - 1)
                    IN  IF /\ c = Len(s) + 1
                           /\ TimeField(H, 24)
                           /\ TimeField(M, 60)
                           /\ TimeField(S, 62)
                           /\ DecVal(S) < 60
                        THEN Parsed(<<DecVal(H), DecVal(M), DecVal(S)>>)
                        ELSE ParseError

\* Seconds that count an hour as 60.
DurationSecondsHourSixty(t) == Num(t[3] + t[2] * 60 + t[1] * 60)

\* x.second + x.minute * 60. + x.hour * 3600.
DurationSeconds(t) == Num(t[3] + t[2] * 60 + t[1] * 3600)

(***************************************************************************)
(* Tables.                                                                 *)
(***************************************************************************)
\* The header of Aggregated_Metrics_By_Video.csv as read: 19 labels that
\* engineer_df_agg overwrites by position.
raw_columns ==
  <<"c01", "c02", "c03", "c04", "c05", "c06", "c07", "c08", "c09", "c10",
    "c11", "c12", "c13", "c14", "c15", "c16", "c17", "c18", "c19">>

\* The labels engineer_df_agg assigns, in order.
agg_columns ==
  <<"Video", "Video Title", "Video Publish Time", "Comments Added",
    "Shares", "Dislikes", "Likes", "Subscribers Lost",
    "Subscribers Gained", "RPM(USD)", "CPM(USD)", "Average % Viewed",
    "Average View Duration", "Views", "Watch Time(hours)", "Subscribers",
    "Your Estimated Revenue(USD)", "Impressions",
    "Impressions Click-through Rate(%)">>

\* The dtypes read_csv infers for the 19 columns.
raw_dtypes ==
  <<"object", "object", "object", "int64",
    "int64", "int64", "int64", "int64",
    "int64", "float64", "float64", "float64",
    "object", "int64", "float64", "int64",
    "float64", "int64", "float64">>

\* The labels of a fully engineered aggregate table.
engineered_columns ==
  agg_columns \o <<"AVG_DURATION_SEC", "ENGAGEMENT_RATIO", "VIEWS / SUBS_GAINED">>

\* The columns get_header_stats selects.
header_columns ==
  <<"Video Publish Time", "Views", "Likes", "Subscribers", "Shares",
    "Comments Added", "RPM(USD)", "Average % Viewed", "AVG_DURATION_SEC",
    "ENGAGEMENT_RATIO", "VIEWS / SUBS_GAINED">>

\* The header of Video_Performance_Over_Time.csv, reduced to the date and
\* one daily metric.
time_columns == <<"Date", "Views">>

NoTable == [columns |-> <<>>, dtypes |-> <<>>, rows |-> <<>>]

NoSeries == [index |-> <<>>, values |-> <<>>]

NoError == [type |-> "none", line |-> 0]

TypeError(line) == [type |-> "TypeError", line |-> line]

ValueError(line) == [type |-> "ValueError", line |-> line]

NRows(df) == Len(df.rows)

\* df[c]: the cells of column c, in row order.
Column(df, c) ==
  LET j == IndexOf(df.columns, c)
  IN  Tuple([i \in 1..NRows(df) |-> df.rows[i][j]])

Dtype(df, c) == df.dtypes[IndexOf(df.columns, c)]

\* df[c] = vals: column c is replaced when df has it and appended when not.
SetColumn(df, c, vals, dtype) ==
  LET j == IndexOf(df.columns, c)
  IN  IF j # 0
      THEN [df EXCEPT !.dtypes[j] = dtype,
                      !.rows = [i \in 1..NRows(df) |->
                                  [df.rows[i] EXCEPT ![j] = vals[i]]]]
      ELSE [columns |-> Append(df.columns, c),
            dtypes |-> Append(df.dtypes, dtype),
            rows |-> [i \in 1..NRows(df) |-> Append(df.rows[i], vals[i])]]

\* Two tables are the same table: labels and dtypes first, so that cells
\* are compared only where they hold the same kind of value.
SameTable(a, b) ==
  /\ a.columns = b.columns
  /\ a.dtypes = b.dtypes
  /\ a.rows = b.rows

SameSeries(a, b) == a.index = b.index /\ a.values = b.values

NumericDtypes == {"int64", "float64"}

\* The sub-sequence of vals at the positions where keep is TRUE.
RECURSIVE Filter(_, _)
Filter(vals, keep) ==
  IF Len(vals) = 0 THEN <<>>
  ELSE LET rest == Filter(SubSeq(vals, 1, Len(vals) - 1),
                          SubSeq(keep, 1, Len(keep) - 1))
       IN  IF keep[Len(vals)] THEN Append(rest, vals[Len(vals)]) ELSE rest

RowOrders(n) ==
  {p \in [1..n -> 1..n] : \A i, j \in 1..n : p[i] = p[j] => i = j}

\* A sort that puts the oldest record first.
AscendingOrders(dates) ==
  {p \in RowOrders(Len(dates)) :
     \A i, j \in 1..Len(dates) : i < j => DateGeq(dates[p[j]], dates[p[i]])}

\* sort_values(..., ascending=False) with the default kind="quicksort",
\* which pandas documents as not stable: every order that is descending
\* by publish time is an order the call may produce.  (numpy's quicksort
\* falls back to an insertion sort on short arrays, so the order of ties
\* shows on tables of more than 16 records; the few rows here stand for
\* those.)  Rows without a publish time go last (na_position="last").
\* p[k] is the input position of the row placed at position k.
SortOrders(dates) ==
  {p \in RowOrders(Len(dates)) :
     \A i, j \in 1..Len(dates) : i < j =>
       \/ dates[p[j]] = NaT
       \/ DateGeq(dates[p[i]], dates[p[j]])}

\* A reordering that keeps one record per publish time.
ReorderDistinctTimes(df, p) ==
  LET j == IndexOf(df.columns, "Video Publish Time")
      rows == [k \in 1..NRows(df) |-> df.rows[p[k]]]
      first == [k \in 1..NRows(df) |->
                  \A h \in 1..(k - 1) : rows[h][j] # rows[k][j]]
  IN  [df EXCEPT !.rows = Filter(rows, first)]

Reorder(df, p) == [df EXCEPT !.rows = [k \in 1..NRows(df) |-> df.rows[p[k]]]]

(***************************************************************************)
(* engineer_df_agg                                                         *)
(***************************************************************************)
\* Lines 93-113: the 19 labels are assigned by position; pandas raises
\* ValueError (length mismatch) when the table does not have 19 columns.
RenameColumns(df) ==
  IF Len(df.columns) # Len(agg_columns)
  THEN [df |-> df, err |-> ValueError(93)]
  ELSE [df |-> [df EXCEPT !.columns = agg_columns], err |-> NoError]

\* The strings pd.to_datetime reads as a missing value whatever the format
\* (pandas' nat_strings); the empty string is read the same way.
nat_strings ==
  { <<"N", "a", "T">>, <<"n", "a", "t">>, <<"N", "A", "T">>,
    <<"n", "a", "n">>, <<"N", "a", "N">>, <<"N", "A", "N">> }

\* Lines 116-118 and 159 on one cell: pd.to_datetime(..., format=...) with
\* the default errors="raise".  An empty string or one of nat_strings
\* becomes NaT without an error; any other string must match the format.
ToDatetime(s, format) ==
  IF s = <<>> \/ s \in nat_strings THEN Parsed(NaT)
  ELSE IF format = "%d %b %Y" THEN ParseDate(s)
  ELSE ParsePublishTime(s)

\* Lines 116-118: every publish-time string is parsed, and one that does
\* not match raises.  A column that is already datetime is returned as is.
ConvertPublishTime(df) ==
  LET col == Column(df, "Video Publish Time")
      res == [i \in 1..NRows(df) |-> ToDatetime(col[i], "%b %d, %Y")]
  IN  IF Dtype(df, "Video Publish Time") = "datetime64"
      THEN [df |-> df, err |-> NoError]
      ELSE IF \E i \in 1..NRows(df) : ~res[i].ok
      THEN [df |-> df, err |-> ValueError(116)]
      ELSE [df |-> SetColumn(df, "Video Publish Time",
                             [i \in 1..NRows(df) |-> res[i].value], "datetime64"),
            err |-> NoError]

\* Lines 121-123: every duration string goes through datetime.strptime,
\* which raises TypeError on a cell that is no string.  With no row the
\* lambda is never called and the column keeps its dtype.
ConvertDuration(df) ==
  LET col == Column(df, "Average View Duration")
      res == [i \in 1..NRows(df) |-> ParseDuration(col[i])]
  IN  IF NRows(df) = 0
      THEN [df |-> df, err |-> NoError]
      ELSE IF Dtype(df, "Average View Duration") = "datetime64"
      THEN [df |-> df, err |-> TypeError(121)]
      ELSE IF \E i \in 1..NRows(df) : ~res[i].ok
      THEN [df |-> df, err |-> ValueError(121)]
      ELSE [df |-> SetColumn(df, "Average View Duration",
                             [i \in 1..NRows(df) |-> res[i].value], "datetime64"),
            err |-> NoError]

\* Lines 124-136: the three derived columns, appended in this order.
AddDerivedColumns(df) ==
  LET n == NRows(df)
      dur == Column(df, "Average View Duration")
      com == Column(df, "Comments Added")
      sha == Column(df, "Shares")
      lik == Column(df, "Likes")
      dis == Column(df, "Dislikes")
      vie == Column(df, "Views")
      gai == Column(df, "Subscribers Gained")
      d1 == SetColumn(df, "AVG_DURATION_SEC",
                      [i \in 1..n |-> DurationSeconds(dur[i])],
                      IF n = 0 THEN "object" ELSE "float64")
      d2 == SetColumn(d1, "ENGAGEMENT_RATIO",
                      [i \in 1..n |->
                         FDiv(FAdd(FAdd(FAdd(com[i], sha[i]), lik[i]), dis[i]),
                              vie[i])],
                      "float64")
  IN  SetColumn(d2, "VIEWS / SUBS_GAINED",
                [i \in 1..n |-> FDiv(vie[i], gai[i])], "float64")

\* Lines 93-136: everything engineer_df_agg does before it sorts.  The
\* table is changed in place, so a step that raises leaves the changes of
\* the steps before it.
EngineerBeforeSort(df) ==
  LET r1 == RenameColumns(df)
  IN  IF r1.err # NoError THEN r1
      ELSE LET r2 == ConvertPublishTime(r1.df)
           IN  IF r2.err # NoError THEN r2
               ELSE LET r3 == ConvertDuration(r2.df)
                    IN  IF r3.err # NoError THEN r3
                        ELSE [df |-> AddDerivedColumns(r3.df), err |-> NoError]

(***************************************************************************)
(* engineer_df_time                                                        *)
(***************************************************************************)
Sept == <<"S", "e", "p", "t">>
Sep == <<"S", "e", "p">>

\* Line 158: x.replace("Sept", "Sep") on one cell of the Date column.
NormalizeDate(x) == Replace(x, Sept, Sep)

\* Line 158 on the column.  On a datetime column x is a Timestamp, whose
\* replace() takes date fields and raises ValueError on a string; with no
\* row the lambda is never called.
NormalizeDates(df) ==
  LET col == Column(df, "Date")
  IN  IF NRows(df) = 0 THEN [df |-> df, err |-> NoError]
      ELSE IF Dtype(df, "Date") = "datetime64"
      THEN [df |-> df, err |-> ValueError(158)]
      ELSE [df |-> SetColumn(df, "Date",
                             [i \in 1..NRows(df) |-> NormalizeDate(col[i])],
                             "object"),
            err |-> NoError]

\* Line 159: every date string is parsed, and one that is neither read as
\* missing nor matches raises.  A column that is already datetime is
\* returned as is.
ConvertDates(df) ==
  LET col == Column(df, "Date")
      res == [i \in 1..NRows(df) |-> ToDatetime(col[i], "%d %b %Y")]
  IN  IF Dtype(df, "Date") = "datetime64"
      THEN [df |-> df, err |-> NoError]
      ELSE IF \E i \in 1..NRows(df) : ~res[i].ok
      THEN [df |-> df, err |-> ValueError(159)]
      ELSE [df |-> SetColumn(df, "Date",
                             [i \in 1..NRows(df) |-> res[i].value], "datetime64"),
            err |-> NoError]

\* Lines 157-161.  The table is changed in place: when line 159 raises,
\* the Date column keeps the strings line 158 wrote.
engineer_df_time(df) ==
  LET r1 == NormalizeDates(df)
  IN  IF r1.err # NoError THEN r1 ELSE ConvertDates(r1.df)

(***************************************************************************)
(* get_vid_stat_trends and get_header_stats                                *)
(***************************************************************************)
\* df["Video Publish Time"] >= df["Video Publish Time"].max()
\*                             - pd.DateOffset(months=months)
Window(df, months) ==
  LET pub == Column(df, "Video Publish Time")
      cutoff == SubMonths(DateMax(pub), months)
  IN  Tuple([i \in 1..NRows(df) |-> DateGeq(pub[i], cutoff)])

\* The labels median(numeric_only=True) keeps, in column order.
NumericLabels(df) ==
  LET keep == [j \in 1..Len(df.columns) |-> df.dtypes[j] \in NumericDtypes]
  IN  Filter(df.columns, keep)

\* df[window].median(numeric_only=True): one median per numeric column,
\* over the rows of the window.
WindowMedians(df, months) ==
  LET w == Window(df, months)
      labels == NumericLabels(df)
  IN  [index |-> labels,
       values |-> Tuple([k \in 1..Len(labels) |->
                           Median(Filter(Column(df, labels[k]), w))])]

SeriesAt(ser, c) == ser.values[IndexOf(ser.index, c)]

\* The deviation scaled to a percentage.
DeviationPercent(v, med) ==
  LET d == FDiv(FSub(v, med), med)
  IN  IF IsFinite(d) THEN Frac(100 * d[1], d[2]) ELSE d

\* The ratio to the median, without the subtraction.
DeviationRatio(v, med) == FDiv(v, med)

\* (value - median) / median
Deviation(v, med) == FDiv(FSub(v, med), med)

\* The deviations of the records inside the 12-month window only.
get_vid_stat_trends_window_rows(df) ==
  LET med == WindowMedians(df, 12)
      rows == [i \in 1..NRows(df) |->
                 [j \in 1..Len(df.columns) |->
                    IF df.dtypes[j] \in NumericDtypes
                    THEN Deviation(df.rows[i][j], SeriesAt(med, df.columns[j]))
                    ELSE df.rows[i][j]]]
  IN  [columns |-> df.columns,
       dtypes |-> [j \in 1..Len(df.columns) |->
                     IF df.dtypes[j] \in NumericDtypes THEN "float64"
                     ELSE df.dtypes[j]],
       rows |-> Filter(rows, Window(df, 12))]

\* Lines 182-200: a copy of df in which every int64 or float64 column
\* holds the deviation from the 12-month median; the other columns and
\* the rows' order are those of df.
get_vid_stat_trends(df) ==
  LET med == WindowMedians(df, 12)
  IN  [columns |-> df.columns,
       dtypes |-> [j \in 1..Len(df.columns) |->
                     IF df.dtypes[j] \in NumericDtypes THEN "float64"
                     ELSE df.dtypes[j]],
       rows |-> [i \in 1..NRows(df) |->
                   [j \in 1..Len(df.columns) |->
                      IF df.dtypes[j] \in NumericDtypes
                      THEN Deviation(df.rows[i][j], SeriesAt(med, df.columns[j]))
                      ELSE df.rows[i][j]]]]

\* The caller's table after a call that writes the deviations into it.
TableAfterTrendsInPlace(df) == get_vid_stat_trends(df)

\* The caller's table after get_vid_stat_trends(df): line 183 takes a
\* copy and lines 196-198 write to the copy.
TableAfterTrends(df) == df

\* df[[...]]: the table of the selected columns.
SelectColumns(df, cols) ==
  [columns |-> cols,
   dtypes |-> [k \in 1..Len(cols) |-> Dtype(df, cols[k])],
   rows |-> [i \in 1..NRows(df) |->
               [k \in 1..Len(cols) |-> df.rows[i][IndexOf(df.columns, cols[k])]]]]

\* Lines 235-266: the 6-month medians of the numeric header columns and
\* their change against the 12-month medians.
get_header_stats(df) ==
  LET header_metrics_df == SelectColumns(df, header_columns)
      median_12mo_metrics == WindowMedians(header_metrics_df, 12)
      median_6mo_metrics == WindowMedians(header_metrics_df, 6)
  IN  [metrics |-> median_6mo_metrics,
       trends |-> [index |-> median_6mo_metrics.index,
                   values |-> [k \in 1..Len(median_6mo_metrics.index) |->
                                 Deviation(median_6mo_metrics.values[k],
                                           median_12mo_metrics.values[k])]]]

(***************************************************************************)
(* The inputs explored: tables as load_data hands them over.               *)
(***************************************************************************)
PubString(m, d, y) == MonthName(m) \o <<" ">> \o Dec(d) \o <<",", " ">> \o Dec(y)

DurString(h, m, s) == Dec(h) \o <<":">> \o Pad2(m) \o <<":">> \o Pad2(s)

\* One export row: the fields that vary, the other cells derived from k.
RawRow(id, t) ==
  << <<"v", DigitChar(id)>>, <<"t", DigitChar(t.k)>>, t.pub, Num(t.com),
     Num(t.k), Num(0), Num(2 * t.k), Num(0),
     Num(t.gained), Frac(t.k, 2), Num(t.k + 1), Frac(100, t.k + 1),
     t.dur, Num(t.views), Frac(t.views, 4), Num(t.views + t.k),
     Frac(t.views * t.k, 8), Num(10 * t.views), Frac(t.k, 5) >>

Row(pub, dur, com, views, gained, k) ==
  [pub |-> pub, dur |-> dur, com |-> com, views |-> views,
   gained |-> gained, k |-> k]

\* Records around the 6- and 12-month cutoffs of a latest video of
\* 1 Mar 2024 or 31 Aug 2023, with zero views and zero subscribers gained
\* among them.
AggRows ==
  { Row(PubString(3, 1, 2024), DurString(0, 3, 25), 1, 10, 2, 1),
    Row(PubString(9, 1, 2023), DurString(1, 0, 0), 1, 0, 0, 2),
    Row(PubString(2, 28, 2023), DurString(23, 59, 59), 3, 20, 5, 5),
    Row(PubString(8, 31, 2023), DurString(0, 10, 0), 0, 6, 0, 3) }

\* Duration strings "H:M:S" around the limits of the three fields, padded
\* and not.
DurStrings ==
  {DurString(h, m, s) : h \in {0, 7, 23, 24, 100}, m \in {0, 59, 60},
                        s \in {0, 59, 60, 61}}
  \cup {Dec(h) \o <<":">> \o Dec(m) \o <<":">> \o Dec(s) :
          h \in {1, 23}, m \in {2, 60}, s \in {3}}
  \cup {Pad2(h) \o <<":">> \o Pad2(m) \o <<":">> \o Pad2(s) :
          h \in {0, 9}, m \in {5}, s \in {7}}
  \cup { <<"0", "0", "1", ":", "0", "2", ":", "0", "3">>,
         <<"1", ":", "0", "2">>, <<"1", ":", "0", "2", ":", "0", "3", " ">> }

\* Publish-time strings: days at the ends of months, and strings the
\* format does not match.
PubStrings ==
  {PubString(m, d, y) : m \in {2, 9}, d \in {5, 29, 30, 31}, y \in {2023, 2024}}
  \cup { <<"S", "e", "p", "t", " ", "1", ",", " ", "2", "0", "2", "4">>,
         <<"j", "a", "n", " ", "0", "5", ",", " ", "2", "0", "2", "4">>,
         <<"0", "5", " ", "J", "a", "n", " ", "2", "0", "2", "4">>,
         <<"N", "a", "T">> }

\* Date strings of the time series: "Sep" and "Sept" spellings of the same
\* days, another month, a day September does not have, a date in the
\* publish-time format and the string "NaT".
DayTokens == {<<"0", "5">>, <<"3", "1">>}

YearTokens == {Dec(2024)}

DateStrings ==
  {d \o <<" ">> \o mon \o <<" ">> \o y :
     d \in DayTokens, mon \in {Sep, Sept}, y \in YearTokens}
  \cup { <<"0", "5", " ", "F", "e", "b", " ", "2", "0", "2", "4">>,
         PubString(2, 5, 2024),
         <<"N", "a", "T">> }

RawAgg(rows) == [columns |-> raw_columns, dtypes |-> raw_dtypes, rows |-> rows]

RawTime(dates) ==
  [columns |-> time_columns, dtypes |-> <<"object", "int64">>,
   rows |-> [i \in 1..Len(dates) |-> <<dates[i], Num(i)>>]]

SeqsUpTo(S, n) == UNION {[1..k -> S] : k \in 0..n}

\* Aggregate tables of up to MaxRows records, with distinct video ids.
AggTables ==
  {RawAgg([i \in 1..Len(ts) |-> RawRow(i, ts[i])]) : ts \in SeqsUpTo(AggRows, MaxRows)}

\* One-record aggregate tables over the duration and publish-time strings,
\* and two-record tables in which one or both publish times read "NaT".
ParseTables ==
  {RawAgg(<<RawRow(1, Row(PubString(3, 1, 2024), d, 1, 10, 2, 1))>>) :
     d \in DurStrings}
  \cup {RawAgg(<<RawRow(1, Row(pb, DurString(0, 3, 25), 1, 10, 2, 1))>>) :
          pb \in PubStrings}
  \cup {RawAgg(<<RawRow(1, Row(<<"N", "a", "T">>, DurString(0, 3, 25), 1, 10, 2, 1)),
                 RawRow(2, Row(pb, DurString(0, 10, 0), 0, 6, 0, 3))>>) :
          pb \in {PubString(9, 5, 2023), <<"N", "a", "T">>}}

TimeTables == {RawTime(ds) : ds \in SeqsUpTo(DateStrings, MaxTimeRows)}

(***************************************************************************)
(* The state machine: the tables run_it holds, and the calls made on them. *)
(* err is the exception that ended the run (NoError while it runs), last   *)
(* the function called last and arg the table it was called with.          *)
(***************************************************************************)
Init ==
  /\ \/ /\ df_agg \in AggTables \cup ParseTables
        /\ df_time = RawTime(<< <<"1", " ">> \o Sept \o <<" ">> \o Dec(2024) >>)
     \/ /\ df_agg = RawAgg(<<>>)
        /\ df_time \in TimeTables
  /\ df_agg_diff = NoTable
  /\ header_metrics = NoSeries
  /\ header_trends = NoSeries
  /\ err = NoError
  /\ last = "load_data"
  /\ arg = NoTable

\* Line 506: df_agg = engineer_df_agg(df_agg).  The function works on the
\* table it is given and returns it.
EngineerDfAgg ==
  /\ err = NoError
  /\ LET r == EngineerBeforeSort(df_agg)
     IN  IF r.err # NoError
         THEN df_agg' = r.df /\ err' = r.err
         ELSE /\ \E p \in SortOrders(Column(r.df, "Video Publish Time")) :
                   df_agg' = Reorder(r.df, p)
              /\ err' = NoError
  /\ last' = "engineer_df_agg"
  /\ arg' = df_agg
  /\ UNCHANGED <<df_time, df_agg_diff, header_metrics, header_trends>>

\* Line 507: df_time = engineer_df_time(df_time), in place as well.
EngineerDfTime ==
  /\ err = NoError
  /\ LET r == engineer_df_time(df_time)
     IN  df_time' = r.df /\ err' = r.err
  /\ last' = "engineer_df_time"
  /\ arg' = df_time
  /\ UNCHANGED <<df_agg, df_agg_diff, header_metrics, header_trends>>

\* Line 510: df_agg_diff = get_vid_stat_trends(df_agg), on the engineered
\* table.
GetVidStatTrends ==
  /\ err = NoError
  /\ df_agg.columns = engineered_columns
  /\ df_agg_diff' = get_vid_stat_trends(df_agg)
  /\ df_agg' = TableAfterTrends(df_agg)
  /\ last' = "get_vid_stat_trends"
  /\ arg' = df_agg
  /\ UNCHANGED <<df_time, header_metrics, header_trends, err>>

\* Line 511: header_metrics, header_trends = get_header_stats(df_agg).
GetHeaderStats ==
  /\ err = NoError
  /\ df_agg.columns = engineered_columns
  /\ LET r == get_header_stats(df_agg)
     IN  header_metrics' = r.metrics /\ header_trends' = r.trends
  /\ last' = "get_header_stats"
  /\ arg' = df_agg
  /\ UNCHANGED <<df_agg, df_time, df_agg_diff, err>>

Next == EngineerDfAgg \/ EngineerDfTime \/ GetVidStatTrends \/ GetHeaderStats

Spec == Init /\ [][Next]_vars

(***************************************************************************)
(* Properties.  A state with last = f is the state right after a call of   *)
(* f: arg is the table f was called with, err the exception it raised.     *)
(***************************************************************************)
AfterCall(f) == last = f

Returned(f) == last = f /\ err = NoError

\* The first call of engineer_df_agg in a run: on the table as loaded.
FirstEngineerAgg == AfterCall("engineer_df_agg") /\ arg.columns = raw_columns

\* The publish time of row i of a raw aggregate table.
RawPublishTime(df, i) == ToDatetime(df.rows[i][3], "%b %d, %Y").value

\* The row of df that holds the video of row i of the raw table raw.
PositionOf(df, raw, i) ==
  CHOOSE k \in 1..NRows(df) : df.rows[k][1] = raw.rows[i][1]

Engineered == df_agg.columns = engineered_columns

\* Every publish time and duration string of the raw table parses.
WellFormed(raw) ==
  \A i \in 1..NRows(raw) :
    /\ ParsePublishTime(raw.rows[i][3]).ok
    /\ ParseDuration(raw.rows[i][13]).ok

\* Some record has Views = 0 or Subscribers Gained = 0 (columns 14 and 9,
\* raw or engineered).
HasZeroDenominator(df) ==
  \E i \in 1..NRows(df) : df.rows[i][14] = Num(0) \/ df.rows[i][9] = Num(0)

\* C2: in an engineered table a record with Views = 0 has a non-finite
\* ENGAGEMENT_RATIO and a record with Subscribers Gained = 0 a non-finite
\* VIEWS / SUBS_GAINED (inf, -inf or NaN), and none of engineer_df_agg,
\* get_vid_stat_trends and get_header_stats raises on such a table.
C2_ZeroDivisionSentinel ==
  /\ Engineered =>
       \A i \in 1..NRows(df_agg) :
         /\ Column(df_agg, "Views")[i] = Num(0)
              => ~IsFinite(Column(df_agg, "ENGAGEMENT_RATIO")[i])
         /\ Column(df_agg, "Subscribers Gained")[i] = Num(0)
              => ~IsFinite(Column(df_agg, "VIEWS / SUBS_GAINED")[i])
  /\ (FirstEngineerAgg /\ HasZeroDenominator(arg) /\ WellFormed(arg))
       => err = NoError
  /\ ( /\ AfterCall("get_vid_stat_trends") \/ AfterCall("get_header_stats")
       /\ HasZeroDenominator(arg) )
       => err = NoError

\* C2 witness: the whole pipeline has run on a table that holds a record
\* with Views = 0 and Comments Added = 1, whose ENGAGEMENT_RATIO is inf.
C2_Witness ==
  /\ Engineered
  /\ err = NoError
  /\ df_agg_diff # NoTable
  /\ header_metrics # NoSeries
  /\ \E i \in 1..NRows(df_agg) :
       /\ Column(df_agg, "Views")[i] = Num(0)
       /\ Column(df_agg, "Comments Added")[i] = Num(1)
       /\ Column(df_agg, "ENGAGEMENT_RATIO")[i] = Inf

\* Every record of df is outside the lookback window of the given months.
EmptyWindow(df, months) ==
  LET pub == Column(df, "Video Publish Time")
  IN  \A i \in 1..NRows(df) :
        ~DateGeq(pub[i], SubMonths(DateMax(pub), months))

\* C3 (as stated): when no record falls inside a lookback window,
\* get_vid_stat_trends and get_header_stats report an error.
C3_EmptyWindowReported ==
  /\ (AfterCall("get_vid_stat_trends") /\ EmptyWindow(arg, 12)) => err # NoError
  /\ ( /\ AfterCall("get_header_stats")
       /\ EmptyWindow(arg, 6) \/ EmptyWindow(arg, 12) )
       => err # NoError

\* C4 (as stated): get_header_stats returns the 11 named metrics, each
\* with its 6-month median and its trend.
C4_ElevenHeaderMetrics ==
  Returned("get_header_stats") =>
    /\ header_metrics.index = header_columns
    /\ header_trends.index = header_columns

NumericPositions(df) ==
  {j \in 1..Len(df.columns) : df.dtypes[j] \in NumericDtypes}

\* The median of column j of df over the records published at or after
\* the latest publish time minus 12 months.
Median12(df, j) ==
  LET pub == Column(df, "Video Publish Time")
      latest == DateMax(pub)
      inside == [i \in 1..NRows(df) |-> DateGeq(pub[i], SubMonths(latest, 12))]
  IN  Median(Filter([i \in 1..NRows(df) |-> df.rows[i][j]], inside))

\* C6: get_vid_stat_trends replaces, for every record and every numeric
\* column, the value by (value - median) / median, not scaled by 100, the
\* median taken over the records published at or after the latest publish
\* time minus 12 months.
C6_DeviationFromMedian12 ==
  Returned("get_vid_stat_trends") =>
    \A i \in 1..NRows(arg) : \A j \in NumericPositions(arg) :
      df_agg_diff.rows[i][j] =
        FDiv(FSub(arg.rows[i][j], Median12(arg, j)), Median12(arg, j))

\* C6 witness: the deviations of three records, one of them older than the
\* 12-month window, with a Views value a quarter above the median.
C6_Witness ==
  /\ Returned("get_vid_stat_trends")
  /\ NRows(arg) = 3
  /\ \E i \in 1..3 : ~Window(arg, 12)[i]
  /\ \E i \in 1..3 : df_agg_diff.rows[i][14] = Frac(1, 4)

\* C7 (as stated): a record whose value of a metric equals the 12-month
\* median of that metric gets a deviation of exactly 0 in that metric.
C7_ZeroAtMedian ==
  Returned("get_vid_stat_trends") =>
    \A i \in 1..NRows(arg) : \A j \in NumericPositions(arg) :
      (~IsNaN(Median12(arg, j)) /\ arg.rows[i][j] = Median12(arg, j))
        => df_agg_diff.rows[i][j] = Num(0)

\* C7 (amended): a record whose value of a metric equals the 12-month
\* median of that metric gets a deviation of exactly 0 when that median is
\* finite and not zero, and NaN when the median is zero or infinite.
C7_ZeroAtNonzeroMedian ==
  Returned("get_vid_stat_trends") =>
    \A i \in 1..NRows(arg) : \A j \in NumericPositions(arg) :
      LET m == Median12(arg, j)
      IN  (~IsNaN(m) /\ arg.rows[i][j] = m) =>
            df_agg_diff.rows[i][j] =
              (IF IsFinite(m) /\ m # Num(0) THEN Num(0) ELSE NaN)

\* C7 witness: of three records in the window, one holds the median of
\* Views, which is not zero, and has deviation 0; the others do not.
C7_Witness ==
  /\ Returned("get_vid_stat_trends")
  /\ NRows(arg) = 3
  /\ \A i \in 1..3 : Window(arg, 12)[i]
  /\ Median12(arg, 14) # Num(0)
  /\ Cardinality({i \in 1..3 : arg.rows[i][14] = Median12(arg, 14)}) = 1
  /\ Cardinality({i \in 1..3 : df_agg_diff.rows[i][14] = Num(0)}) = 1

\* C8: the result of get_vid_stat_trends has the records of its argument,
\* as many and in the same order, and every column that is not int64 or
\* float64 (the texts, the publish timestamp and the parsed duration) with
\* the cells and the dtype of the argument.
C8_OtherColumnsUnchanged ==
  Returned("get_vid_stat_trends") =>
    /\ NRows(df_agg_diff) = NRows(arg)
    /\ df_agg_diff.columns = arg.columns
    /\ \A j \in 1..Len(arg.columns) :
         j \notin NumericPositions(arg) =>
           /\ df_agg_diff.dtypes[j] = arg.dtypes[j]
           /\ \A i \in 1..NRows(arg) : df_agg_diff.rows[i][j] = arg.rows[i][j]

\* C8 witness: three records, not all in the window, whose numeric cells
\* were replaced.
C8_Witness ==
  /\ Returned("get_vid_stat_trends")
  /\ NRows(arg) = 3
  /\ \E i \in 1..3 : ~Window(arg, 12)[i]
  /\ \E i \in 1..3 : df_agg_diff.rows[i][14] # arg.rows[i][14]
  /\ \A i \in 1..3 : df_agg_diff.rows[i][3] = arg.rows[i][3]

\* The three digit runs of a string "H:M:S", whatever their lengths and
\* values; <<>> when the string is not three digit runs between colons.
HMSFields(s) ==
  LET a == Span(s, 1, DigitChars)
  IN  IF ~(a <= Len(s) /\ s[a] = ":") THEN <<>>
      ELSE LET b == Span(s, a + 1, DigitChars)
           IN  IF ~(b <= Len(s) /\ s[b] = ":") THEN <<>>
               ELSE LET c == Span(s, b + 1, DigitChars)
                    IN  IF a > 1 /\ b > a + 1 /\ c > b + 1 /\ c = Len(s) + 1
                        THEN <<SubSeq(s, 1, a - 1), SubSeq(s, a + 1, b - 1),
                               SubSeq(s, b + 1, c - 1)>>
                        ELSE <<>>

\* 3600*H + 60*M + S of the fields of "H:M:S".
HMSSeconds(f) == 3600 * DecVal(f[1]) + 60 * DecVal(f[2]) + DecVal(f[3])

\* The fields are a time of day: H in 0..23, M and S in 0..59, each
\* written with one or two digits.
HMSTimeOfDay(f) ==
  /\ \A k \in 1..3 : Len(f[k]) <= 2
  /\ DecVal(f[1]) <= 23 /\ DecVal(f[2]) <= 59 /\ DecVal(f[3]) <= 59

\* A first call of engineer_df_agg on a table whose publish times parse
\* and whose durations all are digit runs "H:M:S".
DurationCase ==
  /\ FirstEngineerAgg
  /\ \A i \in 1..NRows(arg) :
       /\ ParsePublishTime(arg.rows[i][3]).ok
       /\ HMSFields(arg.rows[i][13]) # <<>>

\* C9 (as stated): for every duration string "H:M:S" with integer H, M and
\* S, engineer_df_agg sets AVG_DURATION_SEC to 3600*H + 60*M + S.
C9_SecondsOfAnyHMS ==
  DurationCase =>
    /\ err = NoError
    /\ \A i \in 1..NRows(arg) :
         Column(df_agg, "AVG_DURATION_SEC")[PositionOf(df_agg, arg, i)]
           = Num(HMSSeconds(HMSFields(arg.rows[i][13])))

\* C9 (amended): engineer_df_agg sets AVG_DURATION_SEC to exactly
\* 3600*H + 60*M + S when every duration "H:M:S" of the table is a time of
\* day (H in 0..23, M and S in 0..59, one or two digits each); when one is
\* not, the call raises ValueError at the duration conversion and no
\* AVG_DURATION_SEC column is added.
C9_SecondsOfTimeOfDay ==
  DurationCase =>
    IF \A i \in 1..NRows(arg) : HMSTimeOfDay(HMSFields(arg.rows[i][13]))
    THEN /\ err = NoError
         /\ \A i \in 1..NRows(arg) :
              Column(df_agg, "AVG_DURATION_SEC")[PositionOf(df_agg, arg, i)]
                = Num(HMSSeconds(HMSFields(arg.rows[i][13])))
    ELSE /\ err = ValueError(121)
         /\ IndexOf(df_agg.columns, "AVG_DURATION_SEC") = 0

\* C9 witness: the duration "23:59:59" became 86399 seconds.
C9_Witness ==
  /\ DurationCase
  /\ err = NoError
  /\ \E i \in 1..NRows(arg) :
       /\ arg.rows[i][13] = DurString(23, 59, 59)
       /\ Column(df_agg, "AVG_DURATION_SEC")[PositionOf(df_agg, arg, i)]
            = Num(86399)

\* The day and year numerals a date string can start and end with.
DayNumerals == {Dec(d) : d \in 1..31} \cup {Pad2(d) : d \in 1..9}

YearNumerals == {Dec(y) : y \in 2023..2024}

DateString(d, mon, y) == d \o <<" ">> \o mon \o <<" ">> \o y

IsSeptSpelling(s) ==
  \E d \in DayNumerals, y \in YearNumerals : s = DateString(d, Sept, y)

\* The same day and year written with "Sep" when s is written with
\* "Sept"; s itself otherwise.
SepSpelling(s) ==
  IF IsSeptSpelling(s)
  THEN LET dy == CHOOSE dy \in DayNumerals \X YearNumerals :
                   s = DateString(dy[1], Sept, dy[2])
       IN  DateString(dy[1], Sep, dy[2])
  ELSE s

\* C10: engineer_df_time does with a date written "<day> Sept <year>" what
\* it does with the same date written "<day> Sep <year>": it returns if and
\* only if every date string, "Sept" read as "Sep", matches
\* "%d %b %Y", and then each Date cell is the date its "Sep" spelling
\* parses to.
C10_SeptParsesAsSep ==
  (AfterCall("engineer_df_time") /\ Dtype(arg, "Date") = "object") =>
    /\ err = NoError <=>
         \A i \in 1..NRows(arg) :
           ToDatetime(SepSpelling(arg.rows[i][1]), "%d %b %Y").ok
    /\ err = NoError =>
         \A i \in 1..NRows(arg) :
           df_time.rows[i][1] =
             ToDatetime(SepSpelling(arg.rows[i][1]), "%d %b %Y").value

\* C10 witness: a table with the same day written "Sept" in one row and
\* "Sep" in another, both parsed to 5 Sep 2024.
C10_Witness ==
  /\ Returned("engineer_df_time")
  /\ NRows(arg) = 2
  /\ arg.rows[1][1] = DateString(<<"0", "5">>, Sept, Dec(2024))
  /\ arg.rows[2][1] = DateString(<<"0", "5">>, Sep, Dec(2024))
  /\ df_time.rows[1][1] = <<2024, 9, 5>>
  /\ df_time.rows[2][1] = df_time.rows[1][1]

\* C11: a first call of engineer_df_agg on a table whose 19-column rows
\* are valid (every publish time matches "%b %d, %Y" and every duration
\* "%H:%M:%S") returns, zero views or subscribers gained included, and the
\* table returned has as many rows as the input, each input record once.
C11_TotalAndSameRowCount ==
  (FirstEngineerAgg /\ WellFormed(arg)) =>
    /\ err = NoError
    /\ NRows(df_agg) = NRows(arg)
    /\ \A i \in 1..NRows(arg) :
         Cardinality({k \in 1..NRows(df_agg) :
                        df_agg.rows[k][1] = arg.rows[i][1]}) = 1

\* C11 witness: three valid records, two of them published the same day
\* and one with zero views, all three returned.
C11_Witness ==
  /\ FirstEngineerAgg
  /\ WellFormed(arg)
  /\ err = NoError
  /\ NRows(arg) = 3
  /\ NRows(df_agg) = 3
  /\ arg.rows[1][3] = arg.rows[2][3]
  /\ \E i \in 1..3 : arg.rows[i][14] = Num(0)

\* A date string that matches "%d %b %Y" once "Sept" is written "Sep".
MatchesDayMonthYear(s) == ParseDate(NormalizeDate(s)).ok

\* C12: when some date string of the table given to engineer_df_time does
\* not match "day month-abbrev year" after the "Sept" -> "Sep"
\* normalization, the call fails with the parse error of line 159 and the
\* Date column holds no date coerced to a missing value.
C12_MismatchIsParseError ==
  (/\ AfterCall("engineer_df_time")
   /\ Dtype(arg, "Date") = "object"
   /\ \E i \in 1..NRows(arg) : ~MatchesDayMonthYear(arg.rows[i][1])) =>
    /\ err = ValueError(159)
    /\ \A i \in 1..NRows(df_time) : df_time.rows[i][1] # NaT

\* The table a windowed operation was last called on.
WindowedCall ==
  (AfterCall("get_vid_stat_trends") \/ AfterCall("get_header_stats"))
    /\ NRows(arg) > 0

\* C13: in every non-empty record set given to get_vid_stat_trends or
\* get_header_stats, the records with the latest publish time lie inside
\* the 6-month and the 12-month window, every record of the 6-month window
\* is in the 12-month window, and neither window is empty.
C13_WindowsNeverEmpty ==
  WindowedCall =>
    LET pub == Column(arg, "Video Publish Time")
        w6 == Window(arg, 6)
        w12 == Window(arg, 12)
    IN  /\ \A i \in 1..NRows(arg) :
             pub[i] = DateMax(pub) => (w6[i] /\ w12[i])
        /\ \A i \in 1..NRows(arg) : w6[i] => w12[i]
        /\ \E i \in 1..NRows(arg) : w6[i]
        /\ \E i \in 1..NRows(arg) : w12[i]

====
